---- MODULE Spec2Model ----
(***************************************************************************)
(* StudyBot (src/My.py): the catalog store (class Store), the user profile *)
(* store (class Users) and the bot handlers that drive them.               *)
(*                                                                         *)
(* Python strings are sequences of character codes, so that lower(),       *)
(* strip(), the `in` substring test and the lexicographic order used by    *)
(* sorted() are computed as the code computes them.  added_at is the clock *)
(* reading the ISO string is formatted from: isoformat() strings have one  *)
(* fixed layout, on which string order is the order of the readings.       *)
(* A Python dict is a sequence of entries in insertion order.              *)
(***************************************************************************)
EXTENDS Integers, Sequences, FiniteSets, TLC

VARIABLES items, file, data, ufile, now, last, hist, admins, digest

vars == <<items, file, data, ufile, now, last, hist, admins, digest>>

\* No run of the daily job is in progress.
NoRun == [pc |-> "idle"]

(***************************************************************************)
(* Bounds of the model.                                                    *)
(***************************************************************************)
MaxNow == 1
MaxCount == 1
MaxBatch == 2
MaxPoints == 8
MaxUserPoints == 1
MaxPresses == 3
MaxCmdPoints == 2

(***************************************************************************)
(* Strings.                                                                *)
(***************************************************************************)
Min(a, b) == IF a < b THEN a ELSE b

\* str.lower() on ASCII: 'A'..'Z' (65..90) map to 'a'..'z'.
Lower(s) == [k \in 1..Len(s) |-> IF s[k] >= 65 /\ s[k] <= 90 THEN s[k] + 32 ELSE s[k]]

IsSpace(c) == c = 32

RECURSIVE LStrip(_)
LStrip(s) == IF s # <<>> /\ IsSpace(Head(s)) THEN LStrip(Tail(s)) ELSE s

RECURSIVE RStrip(_)
RStrip(s) == IF s # <<>> /\ IsSpace(s[Len(s)]) THEN RStrip(SubSeq(s, 1, Len(s) - 1)) ELSE s

\* str.strip()
Strip(s) == RStrip(LStrip(s))

\* q in s
IsSubstr(q, s) == \E k \in 0..(Len(s) - Len(q)) : \A j \in 1..Len(q) : s[k + j] = q[j]

\* a < b on str: the first differing character decides, a proper prefix is smaller.
StrLess(a, b) ==
    \E k \in 1..Len(b) :
        /\ k <= Len(a) + 1
        /\ \A j \in 1..(k - 1) : a[j] = b[j]
        /\ (k = Len(a) + 1 \/ a[k] < b[k])

\* Text of the model, as character codes.
S9 == <<57>>
S10 == <<49, 48>>
SMaths == <<77, 97, 116, 104, 115>>
SNotes == <<78, 111, 116, 101, 115>>
SPYQs == <<80, 89, 81, 115>>
SEnglish == <<69, 110, 103, 108, 105, 115, 104>>
SHindi == <<72, 105, 110, 100, 105>>
SClass == <<67, 108, 97, 115, 115>>
SUrl == <<104, 116, 116, 112, 115, 58, 47, 47, 101, 120, 97, 109, 112, 108, 101, 46, 99, 111, 109>>
SA == <<65>>
SB == <<66>>
SLink == "link"
None == "None"

(***************************************************************************)
(* Configuration tables (the axes are cut down to two classes, one subject *)
(* each and one category; both languages are kept).                        *)
(***************************************************************************)
SUPPORTED_CLASSES == <<S9, S10>>
CATEGORIES == <<SNotes>>
CLASS_SUBJECTS == <<[cls |-> S9, subjects |-> <<SMaths>>], [cls |-> S10, subjects |-> <<SMaths>>]>>
LANGS == <<SEnglish, SHindi>>

\* ADMINS = {int(os.getenv("ADMIN_ID", "0"))}
ADMINS(admin_id) == {admin_id}

(***************************************************************************)
(* Item and Item.from_dict.                                                *)
(***************************************************************************)
RequiredKeys == {"id", "class_", "subject", "category", "title", "url"}

\* d.get(k, dflt)
Get(d, k, dflt) == IF k \in DOMAIN d THEN d[k] ELSE dflt

\* Item.from_dict raises KeyError when a subscripted key is missing.
FromDictRaises(d) == ~(RequiredKeys \subseteq DOMAIN d)

from_dict(d, t) ==
    [id |-> d["id"],
     class_ |-> d["class_"],
     subject |-> d["subject"],
     category |-> d["category"],
     title |-> d["title"],
     lang |-> Get(d, "lang", SEnglish),
     url |-> d["url"],
     added_at |-> Get(d, "added_at", t),
     views |-> Get(d, "views", 0),
     downloads |-> Get(d, "downloads", 0),
     media_type |-> Get(d, "media_type", SLink)]

(***************************************************************************)
(* The dict Store.items: entries in insertion order, one per id.           *)
(***************************************************************************)
Ids(its) == {its[k].id : k \in 1..Len(its)}

Has(its, id) == id \in Ids(its)

IndexOf(its, id) == CHOOSE k \in 1..Len(its) : its[k].id = id

Lookup(its, id) == its[IndexOf(its, id)]

\* self.items[it.id] = it: an existing key keeps its place, a new key goes last.
DictSet(its, it) ==
    IF Has(its, it.id)
    THEN [its EXCEPT ![IndexOf(its, it.id)] = it]
    ELSE Append(its, it)

\* del self.items[item_id]
DictDel(its, id) ==
    LET k == IndexOf(its, id)
    IN  SubSeq(its, 1, k - 1) \o SubSeq(its, k + 1, Len(its))

\* sorted(): a stable sort; Before(x, y) says that x's key sorts strictly first.
\* x goes in front of the first element its key sorts strictly before.
InsertSorted(out, x, Before(_, _)) ==
    LET P == {p \in 1..Len(out) : Before(x, out[p])}
        pos == IF P = {} THEN Len(out) + 1 ELSE CHOOSE p \in P : \A r \in P : p <= r
    IN  SubSeq(out, 1, pos - 1) \o <<x>> \o SubSeq(out, pos, Len(out))

Sorted(s, Before(_, _)) ==
    LET f[n \in 0..Len(s)] == IF n = 0 THEN <<>> ELSE InsertSorted(f[n - 1], s[n], Before)
    IN  f[Len(s)]

\* [x for x in s if Keep(x)]
Filter(s, Keep(_)) ==
    LET f[n \in 0..Len(s)] ==
            IF n = 0 THEN <<>>
            ELSE IF Keep(s[n]) THEN Append(f[n - 1], s[n]) ELSE f[n - 1]
    IN  f[Len(s)]

RECURSIVE Concat(_)
Concat(ss) == IF ss = <<>> THEN <<>> ELSE Head(ss) \o Concat(Tail(ss))

(***************************************************************************)
(* class Store.  A store value st is [items, file]: the dict in memory and *)
(* the list of item records in materials.json.                            *)
(***************************************************************************)
\* Store._save: the whole collection is rewritten.
StoreSave(st) == [st EXCEPT !.file = st.items]

SUnder == <<95>>
SSlash == <<47>>
SSpace == <<32>>

SeedItem(cls, subj, cat, lang, t) ==
    [id |-> cls \o SUnder \o subj \o SUnder \o cat \o SUnder \o lang,
     class_ |-> cls,
     subject |-> subj,
     category |-> cat,
     title |-> SClass \o SSpace \o cls \o SSpace \o subj \o SSpace \o cat
               \o SSpace \o <<40>> \o lang \o <<41>>,
     lang |-> lang,
     url |-> SUrl \o SSlash \o cls \o SSlash \o subj \o SSlash \o cat \o SSlash \o lang,
     added_at |-> t,
     views |-> 0,
     downloads |-> 0,
     media_type |-> SLink]

\* The list `seed` of Store._seed_sample_data, in loop order.
SeedList(t) ==
    Concat([c \in 1..Len(CLASS_SUBJECTS) |->
        Concat([s \in 1..Len(CLASS_SUBJECTS[c].subjects) |->
            Concat([k \in 1..Len(CATEGORIES) |->
                [l \in 1..Len(LANGS) |->
                    SeedItem(CLASS_SUBJECTS[c].cls, CLASS_SUBJECTS[c].subjects[s],
                             CATEGORIES[k], LANGS[l], t)]])])])

\* for it in seed: self.items[it.id] = it
seed_sample_data(its, t) ==
    LET seed == SeedList(t)
        f[n \in 0..Len(seed)] == IF n = 0 THEN its ELSE DictSet(f[n - 1], seed[n])
    IN  f[Len(seed)]

\* Store._load.  doc is the content of materials.json: NoFile, BadFile (not
\* JSON, or records from_dict rejects) or [items |-> the list of records].
NoFile == [kind |-> "absent"]
BadFile == [kind |-> "malformed"]
Doc(recs) == [kind |-> "doc", items |-> recs]

store_load(doc, t) ==
    IF doc.kind = "doc" /\ \A k \in 1..Len(doc.items) : ~FromDictRaises(doc.items[k])
    THEN LET f[n \in 0..Len(doc.items)] ==
                 IF n = 0 THEN <<>> ELSE DictSet(f[n - 1], from_dict(doc.items[n], t))
         IN  f[Len(doc.items)]
    ELSE <<>>

\* Mutant: an empty collection is left empty.
store_init_never_seeds(doc, t) ==
    LET loaded == store_load(doc, t)
    IN  IF loaded = <<>>
        THEN [items |-> loaded, file |-> <<>>]
        ELSE [items |-> loaded, file |-> doc.items]

\* Store.__init__: load, and seed and save when nothing was loaded.
store_init(doc, t) ==
    LET loaded == store_load(doc, t)
    IN  IF loaded = <<>>
        THEN StoreSave([items |-> seed_sample_data(loaded, t), file |-> <<>>])
        ELSE [items |-> loaded, file |-> doc.items]

\* key=lambda x: (x.added_at, x.views, x.downloads), reverse=True
ListBefore(x, y) ==
    \/ x.added_at > y.added_at
    \/ x.added_at = y.added_at /\ x.views > y.views
    \/ x.added_at = y.added_at /\ x.views = y.views /\ x.downloads > y.downloads

\* Mutant: the sort key puts the view count before the timestamp.
list_items_views_first(its, class_, subject, category, lang) ==
    LET keep(it) == /\ it.class_ = class_
                    /\ it.subject = subject
                    /\ it.category = category
                    /\ (lang = None \/ it.lang = lang)
        before(x, y) ==
            \/ x.views > y.views
            \/ x.views = y.views /\ x.added_at > y.added_at
            \/ x.views = y.views /\ x.added_at = y.added_at /\ x.downloads > y.downloads
    IN  Sorted(Filter(its, keep), before)

list_items(its, class_, subject, category, lang) ==
    LET keep(it) == /\ it.class_ = class_
                    /\ it.subject = subject
                    /\ it.category = category
                    /\ (lang = None \/ it.lang = lang)
    IN  Sorted(Filter(its, keep), ListBefore)

\* key=lambda x: x.added_at, reverse=True
LatestBefore(x, y) == x.added_at > y.added_at

top_latest(its, limit) ==
    LET s == Sorted(its, LatestBefore) IN SubSeq(s, 1, Min(limit, Len(s)))

\* Mutant: the view increment is not written to materials.json.
inc_view_not_saved(st, item_id) ==
    IF Has(st.items, item_id)
    THEN [st EXCEPT !.items[IndexOf(st.items, item_id)].views = @ + 1]
    ELSE st

inc_view(st, item_id) ==
    IF Has(st.items, item_id)
    THEN StoreSave([st EXCEPT !.items[IndexOf(st.items, item_id)].views = @ + 1])
    ELSE st

\* Mutant: the download increment bumps the view counter.
inc_download_bumps_views(st, item_id) ==
    IF Has(st.items, item_id)
    THEN StoreSave([st EXCEPT !.items[IndexOf(st.items, item_id)].views = @ + 1])
    ELSE st

inc_download(st, item_id) ==
    IF Has(st.items, item_id)
    THEN StoreSave([st EXCEPT !.items[IndexOf(st.items, item_id)].downloads = @ + 1])
    ELSE st

\* key=lambda x: (x.class_, x.subject, x.category, -x.views, -x.downloads)
SearchBefore(x, y) ==
    \/ StrLess(x.class_, y.class_)
    \/ x.class_ = y.class_ /\ StrLess(x.subject, y.subject)
    \/ x.class_ = y.class_ /\ x.subject = y.subject /\ StrLess(x.category, y.category)
    \/ /\ x.class_ = y.class_ /\ x.subject = y.subject /\ x.category = y.category
       /\ (-x.views) < (-y.views)
    \/ /\ x.class_ = y.class_ /\ x.subject = y.subject /\ x.category = y.category
       /\ x.views = y.views
       /\ (-x.downloads) < (-y.downloads)

\* Mutant: the query is matched as typed, without lower().
search_case_sensitive(its, query, lang) ==
    LET q == Strip(query)
        keep(it) == /\ \/ IsSubstr(q, Lower(it.title))
                       \/ IsSubstr(q, Lower(it.subject))
                       \/ IsSubstr(q, Lower(it.category))
                    /\ (lang = None \/ it.lang = lang)
    IN  Sorted(Filter(its, keep), SearchBefore)

search(its, query, lang) ==
    LET q == Strip(Lower(query))
        keep(it) == /\ \/ IsSubstr(q, Lower(it.title))
                       \/ IsSubstr(q, Lower(it.subject))
                       \/ IsSubstr(q, Lower(it.category))
                    /\ (lang = None \/ it.lang = lang)
    IN  Sorted(Filter(its, keep), SearchBefore)

\* params is a dict from some of the keys to strings.
smart_search(its, params) ==
    LET ok(it) ==
            /\ ~("class" \in DOMAIN params /\ it.class_ # params["class"])
            /\ ~("subject" \in DOMAIN params
                 /\ Lower(it.subject) # Lower(params["subject"]))
            /\ ~("category" \in DOMAIN params
                 /\ Lower(it.category) # Lower(params["category"]))
            /\ ~("lang" \in DOMAIN params /\ Lower(it.lang) # Lower(params["lang"]))
            /\ ~("keyword" \in DOMAIN params
                 /\ ~IsSubstr(Lower(params["keyword"]), Lower(it.title)))
    IN  Sorted(Filter(its, ok), SearchBefore)

\* Mutant: a record whose identifier is already in the catalog is skipped.
add_from_json_keeps_first(st, batch, t) ==
    LET f[n \in 0..Len(batch)] ==
            IF n = 0 THEN [items |-> st.items, raised |-> FALSE, count |-> 0]
            ELSE IF f[n - 1].raised THEN f[n - 1]
            ELSE IF FromDictRaises(batch[n]) THEN [f[n - 1] EXCEPT !.raised = TRUE]
            ELSE [items |-> IF Has(f[n - 1].items, batch[n]["id"])
                            THEN f[n - 1].items
                            ELSE DictSet(f[n - 1].items, from_dict(batch[n], t)),
                  raised |-> FALSE,
                  count |-> f[n - 1].count + 1]
        r == f[Len(batch)]
    IN  IF r.raised
        THEN [items |-> r.items, file |-> st.file, raised |-> TRUE, count |-> r.count]
        ELSE [items |-> r.items, file |-> r.items, raised |-> FALSE, count |-> r.count]

\* Store.add_from_json.  t is the clock reading from_dict takes as the default
\* added_at (one reading for the call).  A record from_dict rejects raises out
\* of the loop: the records before it are in self.items, and _save is not
\* reached.
add_from_json(st, batch, t) ==
    LET f[n \in 0..Len(batch)] ==
            IF n = 0 THEN [items |-> st.items, raised |-> FALSE, count |-> 0]
            ELSE IF f[n - 1].raised THEN f[n - 1]
            ELSE IF FromDictRaises(batch[n]) THEN [f[n - 1] EXCEPT !.raised = TRUE]
            ELSE [items |-> DictSet(f[n - 1].items, from_dict(batch[n], t)),
                  raised |-> FALSE,
                  count |-> f[n - 1].count + 1]
        r == f[Len(batch)]
    IN  IF r.raised
        THEN [items |-> r.items, file |-> st.file, raised |-> TRUE, count |-> r.count]
        ELSE [items |-> r.items, file |-> r.items, raised |-> FALSE, count |-> r.count]

\* remove_cmd, lines 602-604: del store.items[item_id]; store._save()
store_delete(st, item_id) ==
    IF Has(st.items, item_id)
    THEN StoreSave([st EXCEPT !.items = DictDel(st.items, item_id)])
    ELSE st

(***************************************************************************)
(* class Users.  A users value ust is [data, file]: the dict in memory,    *)
(* keyed by str(uid), and the object in users.json.                        *)
(***************************************************************************)
\* str(uid) of a non-negative int: its decimal digits.
RECURSIVE StrOfInt(_)
StrOfInt(n) == IF n < 10 THEN <<48 + n>> ELSE StrOfInt(n \div 10) \o <<48 + (n % 10)>>

\* int(s) of a string of decimal digits.
RECURSIVE IntOfStr(_)
IntOfStr(s) == IF Len(s) = 1 THEN s[1] - 48
          ELSE 10 * IntOfStr(SubSeq(s, 1, Len(s) - 1)) + (s[Len(s)] - 48)

\* The quiz state {}: it is only read through .get("i", 0), .get("score", 0)
\* and .get("qs", []), so it is the state with those values.
NoQuiz == [subject |-> <<>>, i |-> 0, score |-> 0, qs |-> <<>>]

DefaultProfile ==
    [lang |-> "hi", bookmarks |-> <<>>, points |-> 0, daily |-> FALSE, quiz |-> NoQuiz]

\* The dict Users.data: entries [key, val] in insertion order, one per key.
NoUsers == <<>>

UKeys(d) == {d[k].key : k \in 1..Len(d)}

UIndex(d, key) == CHOOSE k \in 1..Len(d) : d[k].key = key

\* self.data[str(uid)]
Profile(d, uid) == d[UIndex(d, StrOfInt(uid))].val

\* self.data[str(uid)][field] = v
SetField(d, uid, field, v) ==
    [d EXCEPT ![UIndex(d, StrOfInt(uid))].val = [@ EXCEPT ![field] = v]]

\* Users._save
UsersSave(ust) == [ust EXCEPT !.file = ust.data]

\* Users._load: the object in users.json, or {} when absent or malformed.
users_load(doc) == IF doc.kind = "doc" THEN doc.data ELSE NoUsers

users_init(doc) == [data |-> users_load(doc), file |-> users_load(doc)]

\* Mutant: the default profile is written over an existing one.
ensure_user_overwrites(ust, uid) ==
    IF StrOfInt(uid) \notin UKeys(ust.data)
    THEN UsersSave([ust EXCEPT
             !.data = Append(ust.data, [key |-> StrOfInt(uid), val |-> DefaultProfile])])
    ELSE UsersSave([ust EXCEPT
             !.data[UIndex(ust.data, StrOfInt(uid))].val = DefaultProfile])

ensure_user(ust, uid) ==
    IF StrOfInt(uid) \notin UKeys(ust.data)
    THEN UsersSave([ust EXCEPT
             !.data = Append(ust.data, [key |-> StrOfInt(uid), val |-> DefaultProfile])])
    ELSE ust

set_lang(ust, uid, lang) ==
    LET u == ensure_user(ust, uid)
    IN  UsersSave([u EXCEPT !.data = SetField(u.data, uid, "lang", lang)])

\* The methods that return a value give [ust, ret].
get_lang(ust, uid) ==
    LET u == ensure_user(ust, uid)
    IN  [ust |-> u, ret |-> Get(Profile(u.data, uid), "lang", "hi")]

add_points(ust, uid, pts) ==
    LET u == ensure_user(ust, uid)
    IN  UsersSave([u EXCEPT
            !.data = SetField(u.data, uid, "points", Profile(u.data, uid).points + pts)])

points(ust, uid) ==
    LET u == ensure_user(ust, uid)
    IN  [ust |-> u, ret |-> Get(Profile(u.data, uid), "points", 0)]

subscribe_daily(ust, uid, flag) ==
    LET u == ensure_user(ust, uid)
    IN  UsersSave([u EXCEPT !.data = SetField(u.data, uid, "daily", flag)])

\* [int(uid) for uid, d in self.data.items() if d.get("daily")]
daily_users(ust) ==
    LET flagged(e) == Get(e.val, "daily", FALSE)
        f == Filter(ust.data, flagged)
    IN  [k \in 1..Len(f) |-> IntOfStr(f[k].key)]

Elems(b) == {b[k] : k \in 1..Len(b)}

\* list.remove(x): the first occurrence goes.
ListRemove(b, x) ==
    LET k == CHOOSE k \in 1..Len(b) : b[k] = x /\ \A j \in 1..(k - 1) : b[j] # x
    IN  SubSeq(b, 1, k - 1) \o SubSeq(b, k + 1, Len(b))

\* Mutant: the identifier is appended without the membership test.
bookmark_always_appends(ust, uid, item_id) ==
    LET u == ensure_user(ust, uid)
        b == Profile(u.data, uid).bookmarks
    IN  UsersSave([u EXCEPT !.data = SetField(u.data, uid, "bookmarks", Append(b, item_id))])

bookmark(ust, uid, item_id) ==
    LET u == ensure_user(ust, uid)
        b == Profile(u.data, uid).bookmarks
    IN  IF item_id \notin Elems(b)
        THEN UsersSave([u EXCEPT
                 !.data = SetField(u.data, uid, "bookmarks", Append(b, item_id))])
        ELSE u

unbookmark(ust, uid, item_id) ==
    LET u == ensure_user(ust, uid)
        b == Profile(u.data, uid).bookmarks
    IN  IF item_id \in Elems(b)
        THEN UsersSave([u EXCEPT
                 !.data = SetField(u.data, uid, "bookmarks", ListRemove(b, item_id))])
        ELSE u

list_bookmarks(ust, uid) ==
    LET u == ensure_user(ust, uid)
    IN  [ust |-> u, ret |-> Profile(u.data, uid).bookmarks]

\* setdefault("quiz", {}): every profile the program writes has the key.
get_quiz(ust, uid) ==
    LET u == ensure_user(ust, uid)
    IN  [ust |-> u, ret |-> Profile(u.data, uid).quiz]

set_quiz(ust, uid, q) ==
    LET u == ensure_user(ust, uid)
    IN  UsersSave([u EXCEPT !.data = SetField(u.data, uid, "quiz", q)])

(***************************************************************************)
(* QUIZ_BANK: per subject, the questions (text, options, index of the      *)
(* answer).                                                                *)
(***************************************************************************)
SPhysics == <<80, 104, 121, 115, 105, 99, 115>>
SChemistry == <<67, 104, 101, 109, 105, 115, 116, 114, 121>>
SBiology == <<66, 105, 111, 108, 111, 103, 121>>
SSocialScience == <<83, 111, 99, 105, 97, 108, 32, 83, 99, 105, 101, 110, 99, 101>>

QUIZ_BANK ==
    <<[subject |-> SMaths,
       bank |-> <<[q |-> "What is the value of (a+b)^2?",
                   opts |-> <<"a^2 + b^2", "a^2 + 2ab + b^2", "2ab", "a^2 - 2ab + b^2">>,
                   ans |-> 1]>>],
      [subject |-> SPhysics,
       bank |-> <<[q |-> "SI unit of force?",
                   opts |-> <<"Newton", "Joule", "Pascal", "Watt">>,
                   ans |-> 0]>>],
      [subject |-> SChemistry,
       bank |-> <<[q |-> "Atomic number represents?",
                   opts |-> <<"Neutrons", "Protons", "Electrons in last shell",
                              "Mass number">>,
                   ans |-> 1]>>],
      [subject |-> SBiology,
       bank |-> <<[q |-> "Powerhouse of the cell?",
                   opts |-> <<"Nucleus", "Mitochondria", "Ribosome", "Chloroplast">>,
                   ans |-> 1]>>],
      [subject |-> SEnglish,
       bank |-> <<[q |-> "Choose the correct tense: 'She ____ to school.'",
                   opts |-> <<"go", "goes", "gone", "going">>,
                   ans |-> 1]>>],
      [subject |-> SSocialScience,
       bank |-> <<[q |-> "India became Republic in?",
                   opts |-> <<"1947", "1950", "1952", "1962">>,
                   ans |-> 1]>>]>>

\* QUIZ_BANK.get(subj): the bank, or nothing (falsy) for an unknown subject.
QuizBankGet(subj) ==
    IF \E n \in 1..Len(QUIZ_BANK) : QUIZ_BANK[n].subject = subj
    THEN QUIZ_BANK[CHOOSE n \in 1..Len(QUIZ_BANK) : QUIZ_BANK[n].subject = subj].bank
    ELSE <<>>

\* The quiz state quiz_cmd and the QZSUB button build.
NewQuiz(subj, bank) == [subject |-> subj, i |-> 0, score |-> 0, qs |-> bank]

(***************************************************************************)
(* Inputs of the catalog operations.                                       *)
(***************************************************************************)
SAlgebra == <<65, 108, 103, 101, 98, 114, 97>>
STrig == <<116, 114, 105, 103>>

Rec(id, cls, subj, cat, title) ==
    [id |-> id, class_ |-> cls, subject |-> subj, category |-> cat,
     title |-> title, url |-> SUrl]

\* Records an administrator passes to /addjson: with and without the optional
\* keys, and one without the required url.
RecA1 == Rec(SA, S10, SMaths, SNotes, SAlgebra)
RecA2 == Rec(SA, S9, SEnglish, SNotes, STrig)
             @@ [added_at |-> 1, views |-> 1, downloads |-> 0, lang |-> SHindi,
                 media_type |-> "pdf"]
RecB2 == Rec(SB, S10, SMaths, SNotes, SMaths) @@ [added_at |-> 0, views |-> 1]
RecB3 == Rec(SB, S9, SMaths, SPYQs, SAlgebra) @@ [downloads |-> 1]
RecBad == [id |-> SB, class_ |-> S10, subject |-> SMaths, category |-> SNotes,
           title |-> STrig]

Records == {RecA1, RecA2, RecB2, RecBad}

Batches == UNION {[1..n -> Records] : n \in 1..MaxBatch}

ItemIds == {SA, SB}

\* What materials.json holds when the process starts.
SavedA == from_dict(RecA2, 0)
SavedB == from_dict(RecB2, 0)
InitDocs == {NoFile, BadFile, Doc(<<>>), Doc(<<SavedB, SavedA>>)}

StoreNow == [items |-> items, file |-> file]

Uids == {1, 12}

\* Ghost record of a user's quiz session: the answer buttons pressed since it
\* was started, the points the quiz flow has added since then, and the
\* question indices whose answer buttons the user has been sent so far.
NoSession == [started |-> FALSE, presses |-> <<>>, awarded |-> 0, shown |-> {}]
NoHist == [uid \in Uids |-> NoSession]

UsersIdle == UNCHANGED <<data, ufile, hist, admins, digest>>

InitStore ==
    /\ now = 0
    /\ \E doc \in InitDocs :
          LET st == store_init(doc, now)
          IN  items = st.items /\ file = st.file
    /\ data = NoUsers
    /\ ufile = NoUsers
    /\ hist = NoHist
    /\ admins = ADMINS(0)
    /\ digest = NoRun
    /\ last = [op |-> "init"]

(***************************************************************************)
(* The Store operations as steps.  `last` records the call and what it     *)
(* returned.                                                               *)
(***************************************************************************)
IncView(id) ==
    /\ Has(items, id) => Lookup(items, id).views < MaxCount
    /\ LET st == inc_view(StoreNow, id)
       IN  items' = st.items /\ file' = st.file
    /\ last' = [op |-> "inc_view", id |-> id]
    /\ UNCHANGED now
    /\ UsersIdle

IncDownload(id) ==
    /\ Has(items, id) => Lookup(items, id).downloads < MaxCount
    /\ LET st == inc_download(StoreNow, id)
       IN  items' = st.items /\ file' = st.file
    /\ last' = [op |-> "inc_download", id |-> id]
    /\ UNCHANGED now
    /\ UsersIdle

AddFromJson(batch) ==
    LET r == add_from_json(StoreNow, batch, now)
    IN  /\ items' = r.items
        /\ file' = r.file
        /\ last' = [op |-> "add_from_json", batch |-> batch,
                    raised |-> r.raised, count |-> r.count]
        /\ UNCHANGED now
        /\ UsersIdle

\* Time passes between two calls (the only step that moves the clock, and the
\* only one that leaves `last` alone).
Tick ==
    /\ now < MaxNow
    /\ now' = now + 1
    /\ UNCHANGED <<items, file, data, ufile, last, hist, admins, digest>>

\* The step just taken was the call `op`.
Did(op) == last'.op = op /\ now' = now

Delete(id) ==
    /\ LET st == store_delete(StoreNow, id)
       IN  items' = st.items /\ file' = st.file
    /\ last' = [op |-> "delete", id |-> id, found |-> Has(items, id)]
    /\ UNCHANGED now
    /\ UsersIdle

NextStore ==
    \/ \E id \in ItemIds : IncView(id)
    \/ \E id \in ItemIds : IncDownload(id)
    \/ \E batch \in Batches : AddFromJson(batch)
    \/ \E id \in ItemIds : Delete(id)
    \/ Tick

SpecStore == InitStore /\ [][NextStore]_vars

(***************************************************************************)
(* Claims about the catalog mutations (SpecStore).                         *)
(***************************************************************************)
BatchOf(l) == l.batch

BatchIds(batch) == {batch[n]["id"] : n \in 1..Len(batch)}

\* The last record of the batch that carries the identifier.
LastWith(batch, id) ==
    batch[CHOOSE n \in 1..Len(batch) :
            /\ batch[n]["id"] = id
            /\ \A m \in (n + 1)..Len(batch) : batch[m]["id"] # id]

WellFormed(batch) == \A n \in 1..Len(batch) : RequiredKeys \subseteq DOMAIN batch[n]

HasKey(d, k) == k \in DOMAIN d

\* The entry holds the record's values, and the defaults for what it omits.
Holds(e, d, t) ==
    /\ e.id = d["id"] /\ e.class_ = d["class_"] /\ e.subject = d["subject"]
    /\ e.category = d["category"] /\ e.title = d["title"] /\ e.url = d["url"]
    /\ e.lang = (IF HasKey(d, "lang") THEN d["lang"] ELSE SEnglish)
    /\ e.views = (IF HasKey(d, "views") THEN d["views"] ELSE 0)
    /\ e.downloads = (IF HasKey(d, "downloads") THEN d["downloads"] ELSE 0)
    /\ e.media_type = (IF HasKey(d, "media_type") THEN d["media_type"] ELSE "link")
    /\ e.added_at = (IF HasKey(d, "added_at") THEN d["added_at"] ELSE t)

EntriesWith(its, id) == {k \in 1..Len(its) : its[k].id = id}

\* One ingest of well-formed records is an upsert keyed by identifier.
UpsertStep ==
    (Did("add_from_json") /\ WellFormed(BatchOf(last'))) =>
        LET batch == BatchOf(last')
        IN  /\ ~last'.raised
            /\ last'.count = Len(batch)
            /\ Ids(items') = Ids(items) \cup BatchIds(batch)
            /\ \A id \in Ids(items') : Cardinality(EntriesWith(items', id)) = 1
            /\ \A id \in BatchIds(batch) :
                   Holds(Lookup(items', id), LastWith(batch, id), now)
            /\ \A id \in Ids(items) \ BatchIds(batch) :
                   Lookup(items', id) = Lookup(items, id)

\* The same well-formed batch is ingested again, nothing else in between.
IngestedAgain ==
    /\ last.op = "add_from_json"
    /\ Did("add_from_json")
    /\ BatchOf(last') = BatchOf(last)
    /\ WellFormed(BatchOf(last))

SameButAddedAt(a, b) == [a EXCEPT !.added_at = 0] = [b EXCEPT !.added_at = 0]

\* C4 as stated: bulk ingest is an upsert keyed by identifier (one entry per
\* identifier, holding the last record's values, the other entries unchanged,
\* no error), and ingesting the same record twice yields the same catalog as
\* ingesting it once.
C4_UpsertIdempotent ==
    [][UpsertStep /\ (IngestedAgain => items' = items)]_vars

\* C4, amended: bulk ingest of well-formed records is an upsert keyed by
\* identifier; ingesting the same records again yields the same catalog when
\* every record carries an added_at, and otherwise the same catalog up to the
\* added_at of the re-ingested entries, which becomes the time of the later
\* ingest.
C4_UpsertAmended ==
    [][/\ UpsertStep
       /\ IngestedAgain =>
            /\ Len(items') = Len(items)
            /\ \A k \in 1..Len(items) : SameButAddedAt(items'[k], items[k])
            /\ (\A n \in 1..Len(BatchOf(last)) : HasKey(BatchOf(last)[n], "added_at"))
                   => items' = items]_vars

\* An existing identifier was ingested again with other values: its entry
\* holds the new ones, in its old place.
C4_Witness ==
    /\ last.op = "add_from_json"
    /\ ~last.raised
    /\ BatchOf(last) = <<RecA1, RecA2>>
    /\ Has(items, SB)
    /\ Lookup(items, SA).title = STrig
    /\ Lookup(items, SA).views = 1

\* C5: increment view(id) / increment download(id) add exactly one to that
\* counter of that item and change nothing else; with an absent id they
\* change nothing at all.
C5_IncrementExact ==
    [][/\ Did("inc_view") =>
            /\ Len(items') = Len(items)
            /\ \A k \in 1..Len(items) :
                   items'[k] = IF items[k].id = last'.id
                               THEN [items[k] EXCEPT !.views = @ + 1]
                               ELSE items[k]
       /\ Did("inc_download") =>
            /\ Len(items') = Len(items)
            /\ \A k \in 1..Len(items) :
                   items'[k] = IF items[k].id = last'.id
                               THEN [items[k] EXCEPT !.downloads = @ + 1]
                               ELSE items[k]]_vars

\* A download increment of an absent identifier has just run, on a catalog
\* whose other item was viewed and downloaded before.
C5_Witness ==
    /\ last.op = "inc_download"
    /\ ~Has(items, last.id)
    /\ \E k \in 1..Len(items) : items[k].views = 1 /\ items[k].downloads = 1

\* C6: while an identifier stays in the catalog, neither its view count nor
\* its download count ever takes a lower value.
C6_CountersMonotone ==
    [][\A id \in Ids(items) \cap Ids(items') :
           /\ Lookup(items', id).views >= Lookup(items, id).views
           /\ Lookup(items', id).downloads >= Lookup(items, id).downloads]_vars

(***************************************************************************)
(* The Users operations as steps.                                          *)
(***************************************************************************)
UsersNow == [data |-> data, file |-> ufile]

\* What users.json holds when the process starts.
SavedProfile == [DefaultProfile EXCEPT !.bookmarks = <<SB>>, !.points = 1]
UserDocs == {[kind |-> "absent"], [kind |-> "malformed"],
             [kind |-> "doc", data |-> <<[key |-> StrOfInt(12), val |-> SavedProfile]>>]}

InitUsers ==
    /\ now = 0
    /\ LET st == store_init(Doc(<<SavedB, SavedA>>), now)
       IN  items = st.items /\ file = st.file
    /\ \E doc \in UserDocs :
          LET u == users_init(doc)
          IN  data = u.data /\ ufile = u.file
    /\ hist = NoHist
    /\ admins = ADMINS(0)
    /\ digest = NoRun
    /\ last = [op |-> "init"]

StoreQuiet == UNCHANGED <<items, file, now, hist, admins, digest>>

Fresh(uid) == StrOfInt(uid) \notin UKeys(data)

\* The bookmark list of a user, empty when the user has no profile.
BookmarksOf(d, uid) ==
    IF StrOfInt(uid) \in UKeys(d) THEN Profile(d, uid).bookmarks ELSE <<>>

EnsureUser(uid) ==
    /\ LET u == ensure_user(UsersNow, uid)
       IN  data' = u.data /\ ufile' = u.file
    /\ last' = [op |-> "ensure_user", uid |-> uid, fresh |-> Fresh(uid)]
    /\ StoreQuiet

SetLang(uid, lang) ==
    /\ LET u == set_lang(UsersNow, uid, lang)
       IN  data' = u.data /\ ufile' = u.file
    /\ last' = [op |-> "set_lang", uid |-> uid, fresh |-> Fresh(uid), lang |-> lang]
    /\ StoreQuiet

GetLang(uid) ==
    /\ LET r == get_lang(UsersNow, uid)
       IN  /\ data' = r.ust.data /\ ufile' = r.ust.file
           /\ last' = [op |-> "get_lang", uid |-> uid, fresh |-> Fresh(uid),
                       ret |-> r.ret]
    /\ StoreQuiet

AddPoints(uid, pts) ==
    /\ IF Fresh(uid) THEN pts <= MaxUserPoints
       ELSE Profile(data, uid).points + pts <= MaxUserPoints
    /\ LET u == add_points(UsersNow, uid, pts)
       IN  data' = u.data /\ ufile' = u.file
    /\ last' = [op |-> "add_points", uid |-> uid, fresh |-> Fresh(uid), pts |-> pts]
    /\ StoreQuiet

SubscribeDaily(uid, flag) ==
    /\ LET u == subscribe_daily(UsersNow, uid, flag)
       IN  data' = u.data /\ ufile' = u.file
    /\ last' = [op |-> "subscribe_daily", uid |-> uid, fresh |-> Fresh(uid),
                flag |-> flag]
    /\ StoreQuiet

Bookmark(uid, id) ==
    /\ LET u == bookmark(UsersNow, uid, id)
       IN  data' = u.data /\ ufile' = u.file
    /\ last' = [op |-> "bookmark", uid |-> uid, fresh |-> Fresh(uid), id |-> id,
                dup |-> id \in Elems(BookmarksOf(data, uid))]
    /\ StoreQuiet

Unbookmark(uid, id) ==
    /\ LET u == unbookmark(UsersNow, uid, id)
       IN  data' = u.data /\ ufile' = u.file
    /\ last' = [op |-> "unbookmark", uid |-> uid, fresh |-> Fresh(uid), id |-> id]
    /\ StoreQuiet

ListBookmarks(uid) ==
    /\ LET r == list_bookmarks(UsersNow, uid)
       IN  /\ data' = r.ust.data /\ ufile' = r.ust.file
           /\ last' = [op |-> "list_bookmarks", uid |-> uid, fresh |-> Fresh(uid),
                       ret |-> r.ret]
    /\ StoreQuiet

GetQuiz(uid) ==
    /\ LET r == get_quiz(UsersNow, uid)
       IN  /\ data' = r.ust.data /\ ufile' = r.ust.file
           /\ last' = [op |-> "get_quiz", uid |-> uid, fresh |-> Fresh(uid),
                       ret |-> r.ret]
    /\ StoreQuiet

SetQuiz(uid, q) ==
    /\ LET u == set_quiz(UsersNow, uid, q)
       IN  data' = u.data /\ ufile' = u.file
    /\ last' = [op |-> "set_quiz", uid |-> uid, fresh |-> Fresh(uid), q |-> q]
    /\ StoreQuiet

NextUsers ==
    \/ \E uid \in Uids : EnsureUser(uid)
    \/ \E uid \in Uids : SetLang(uid, "en")
    \/ \E uid \in Uids : GetLang(uid)
    \/ AddPoints(1, 1)
    \/ \E flag \in BOOLEAN : SubscribeDaily(1, flag)
    \/ \E uid \in Uids, id \in ItemIds : Bookmark(uid, id)
    \/ \E uid \in Uids, id \in ItemIds : Unbookmark(uid, id)
    \/ \E uid \in Uids : ListBookmarks(uid)
    \/ GetQuiz(1)
    \/ SetQuiz(1, NewQuiz(SPhysics, QuizBankGet(SPhysics)))

SpecUsers == InitUsers /\ [][NextUsers]_vars

(***************************************************************************)
(* Claims about the profile store (SpecUsers).                             *)
(***************************************************************************)
NoDuplicates(b) == \A j, k \in 1..Len(b) : b[j] = b[k] => j = k

\* b without x, the order of the others kept.
Without(b, x) ==
    LET keep == {k \in 1..Len(b) : b[k] # x}
        rank(k) == Cardinality({j \in keep : j <= k})
    IN  [n \in 1..Cardinality(keep) |-> b[CHOOSE k \in keep : rank(k) = n]]

\* C7: a bookmark list is an insertion-ordered set: never a duplicate;
\* bookmarking a present identifier and unbookmarking an absent one change
\* nothing; a new identifier goes after all the existing ones.
C7_BookmarksOrderedSet ==
    [][/\ \A uid \in Uids : NoDuplicates(BookmarksOf(data', uid))
       /\ Did("bookmark") =>
            LET b == BookmarksOf(data, last'.uid)
            IN  /\ BookmarksOf(data', last'.uid)
                     = (IF last'.id \in Elems(b) THEN b ELSE b \o <<last'.id>>)
                /\ \A uid \in Uids \ {last'.uid} :
                       BookmarksOf(data', uid) = BookmarksOf(data, uid)
       /\ Did("unbookmark") =>
            LET b == BookmarksOf(data, last'.uid)
            IN  /\ BookmarksOf(data', last'.uid)
                     = (IF last'.id \in Elems(b) THEN Without(b, last'.id) ELSE b)
                /\ \A uid \in Uids \ {last'.uid} :
                       BookmarksOf(data', uid) = BookmarksOf(data, uid)]_vars

\* An identifier was bookmarked a second time: the list still holds it once,
\* behind the identifier bookmarked before it.
C7_Witness ==
    /\ last.op = "bookmark"
    /\ last.id = SA
    /\ last.dup
    /\ BookmarksOf(data, last.uid) = <<SB, SA>>

FieldsOf == {"lang", "bookmarks", "points", "daily", "quiz"}

\* The one field the call sets, if it sets one.
FieldSetBy(l) ==
    IF l.op = "set_lang" THEN {"lang"}
    ELSE IF l.op = "add_points" THEN {"points"}
    ELSE IF l.op = "subscribe_daily" THEN {"daily"}
    ELSE IF l.op = "bookmark" THEN {"bookmarks"}
    ELSE IF l.op = "set_quiz" THEN {"quiz"}
    ELSE {}

UserOps == {"ensure_user", "set_lang", "get_lang", "add_points", "subscribe_daily",
            "bookmark", "unbookmark", "list_bookmarks", "get_quiz", "set_quiz"}

IsDefault(p, fields) ==
    /\ "lang" \in fields => p.lang = "hi"
    /\ "bookmarks" \in fields => p.bookmarks = <<>>
    /\ "points" \in fields => p.points = 0
    /\ "daily" \in fields => p.daily = FALSE
    /\ "quiz" \in fields => (p.quiz.i = 0 /\ p.quiz.score = 0 /\ p.quiz.qs = <<>>)

\* C8: profiles are created lazily and never removed: an operation that names
\* a user without a record creates the default profile first (and get language
\* returns the default language); a profile, once there, stays; ensuring an
\* existing profile changes nothing.
C8_LazyProfiles ==
    [][/\ UKeys(data) \subseteq UKeys(data')
       /\ (last'.op \in UserOps /\ now' = now) =>
            LET key == StrOfInt(last'.uid)
            IN  /\ key \in UKeys(data')
                /\ key \notin UKeys(data) =>
                       /\ IsDefault(Profile(data', last'.uid), FieldsOf \ FieldSetBy(last'))
                       /\ UKeys(data') = UKeys(data) \cup {key}
                /\ (key \notin UKeys(data) /\ last'.op = "get_lang") =>
                       /\ last'.ret = "hi"
                       /\ IsDefault(Profile(data', last'.uid), FieldsOf)
                /\ (key \in UKeys(data) /\ last'.op = "ensure_user") => data' = data
                /\ \A k \in 1..Len(data) :
                       data[k].key # key => data'[k] = data[k]]_vars

\* get language has just created the profile of a user that had none, next
\* to another user's profile that holds bookmarks and points.
C8_Witness ==
    /\ last.op = "get_lang"
    /\ last.fresh
    /\ last.ret = "hi"
    /\ Len(data) = 2
    /\ data[1].val.points > 0
    /\ data[2].key = StrOfInt(last.uid)

(***************************************************************************)
(* Both stores under their mutating operations (SpecPersist).              *)
(***************************************************************************)
PersistBatches == {<<r>> : r \in Records} \cup {<<RecA1, RecBad>>}

NextPersist ==
    \/ \E id \in ItemIds : IncView(id)
    \/ \E id \in ItemIds : IncDownload(id)
    \/ \E batch \in PersistBatches : AddFromJson(batch)
    \/ \E id \in ItemIds : Delete(id)
    \/ EnsureUser(1)
    \/ SetLang(1, "en")
    \/ AddPoints(1, 1)
    \/ \E flag \in BOOLEAN : SubscribeDaily(1, flag)
    \/ Bookmark(1, SA)
    \/ Unbookmark(1, SA)
    \/ SetQuiz(1, NewQuiz(SPhysics, QuizBankGet(SPhysics)))

SpecPersist == InitStore /\ [][NextPersist]_vars

CatalogMutators == {"inc_view", "inc_download", "add_from_json", "delete"}

ProfileMutators == {"ensure_user", "set_lang", "add_points", "subscribe_daily",
                    "bookmark", "unbookmark", "set_quiz"}

\* The ingest raised before it returned.
IngestFailed(l) == l.op = "add_from_json" /\ l.raised

\* C11: every mutating operation persists in full before it returns: after a
\* completed catalog mutation (an operation that changed the collection, or an
\* ingest that returned; seeding at initialize included) materials.json holds
\* exactly the items in memory, and after a profile mutation users.json
\* equals the profile map in memory.
C11_PersistedInFull ==
    /\ (Len(items) > 0 /\ file = items /\ ufile = data)
    /\ [][/\ (/\ last'.op \in CatalogMutators /\ now' = now
              /\ ~IngestFailed(last')
              /\ (items' # items \/ last'.op = "add_from_json"))
               => file' = items'
          /\ (last'.op \in ProfileMutators /\ now' = now) => ufile' = data']_vars

\* A profile mutation has just returned, after catalog mutations that changed
\* an item and removed another: both documents hold what memory holds.
C11_Witness ==
    /\ last.op = "bookmark"
    /\ BookmarksOf(data, 1) = <<SA>>
    /\ Profile(data, 1).points = 1
    /\ ufile = data
    /\ Len(items) = 1
    /\ items[1].views = 1
    /\ file = items

(***************************************************************************)
(* Initialize, at start and at every restart (SpecInit).                   *)
(***************************************************************************)
\* What materials.json can hold when the process starts again: what the
\* process wrote, nothing, text that is not JSON, a record without its url.
BootDocs(f) == {Doc(f), NoFile, BadFile, Doc(<<RecBad>>)}

InitBoot ==
    /\ now = 0
    /\ \E doc \in InitDocs \cup {Doc(<<RecBad>>)} :
          LET st == store_init(doc, now)
          IN  /\ items = st.items /\ file = st.file
              /\ last = [op |-> "initialize", doc |-> doc]
    /\ data = NoUsers
    /\ ufile = NoUsers
    /\ hist = NoHist
    /\ admins = ADMINS(0)
    /\ digest = NoRun

Restart(doc) ==
    /\ LET st == store_init(doc, now)
       IN  items' = st.items /\ file' = st.file
    /\ last' = [op |-> "initialize", doc |-> doc]
    /\ UNCHANGED now
    /\ UsersIdle

NextInit ==
    \/ \E doc \in BootDocs(file) : Restart(doc)
    \/ \E id \in ItemIds : Delete(id)
    \/ \E id \in ItemIds : IncView(id)
    \/ \E r \in {RecA1, RecB2} : AddFromJson(<<r>>)
    \/ Tick

SpecInit == InitBoot /\ [][NextInit]_vars

\* The document holds at least one record and every record can be loaded.
LoadsItems(doc) ==
    /\ doc.kind = "doc"
    /\ Len(doc.items) > 0
    /\ \A k \in 1..Len(doc.items) : RequiredKeys \subseteq DOMAIN doc.items[k]

\* The class, subject, category and language combinations of the tables.
Combinations ==
    UNION {{<<CLASS_SUBJECTS[c].cls, CLASS_SUBJECTS[c].subjects[j], CATEGORIES[k], LANGS[l]>> :
               j \in 1..Len(CLASS_SUBJECTS[c].subjects),
               k \in 1..Len(CATEGORIES), l \in 1..Len(LANGS)} :
           c \in 1..Len(CLASS_SUBJECTS)}

\* The collection is the seed set: one item per combination, no two with the
\* same identifier.
IsSeedSet(its) ==
    /\ Len(its) = Cardinality(Combinations)
    /\ \A co \in Combinations :
           Cardinality({k \in 1..Len(its) :
               <<its[k].class_, its[k].subject, its[k].category, its[k].lang>> = co}) = 1
    /\ \A j, k \in 1..Len(its) : its[j].id = its[k].id => j = k

\* C14: initialize never leaves the catalog empty and never fails on bad
\* data: an absent or malformed document, or one without items, gives the
\* seed set, persisted at once; a document that loads with at least one item
\* gives those items and no seed item.
C14_InitializeSeeds ==
    last.op = "initialize" =>
        /\ Len(items) > 0
        /\ IF LoadsItems(last.doc)
           THEN Ids(items) = {last.doc.items[k]["id"] : k \in 1..Len(last.doc.items)}
           ELSE IsSeedSet(items) /\ file = items

\* A restart found a document whose items had all been removed, after time
\* had passed: the seed set of that time is in memory and in the document.
C14_Witness ==
    /\ last.op = "initialize"
    /\ last.doc = Doc(<<>>)
    /\ now = 1
    /\ IsSeedSet(items)
    /\ items[1].added_at = 1
    /\ file = items

(***************************************************************************)
(* The catalog queries as steps.                                           *)
(***************************************************************************)
Smaths == <<109, 97, 116, 104, 115>>
SALG == <<65, 76, 71>>
SClass9 == <<99, 108, 97, 115, 115, 32, 57>>
SMATHS == <<77, 65, 84, 72, 83>>
Shindi == <<104, 105, 110, 100, 105>>
Spyqs == <<112, 121, 113, 115>>

ListKeys == {<<S10, SMaths, SNotes>>, <<S9, SMaths, SPYQs>>, <<S9, SMaths, SNotes>>}
LangFilters == {None, SHindi}

\* " ".join(context.args): words separated by single spaces.
Queries == {Smaths, SALG, SClass9, Spyqs}

ParamSets == {[class |-> S10],
              [subject |-> SMATHS, lang |-> Shindi],
              [category |-> Spyqs],
              [keyword |-> SALG],
              [class |-> S9, keyword |-> Smaths]}

StoreIdle == UNCHANGED <<items, file, now>>

ListItems(key, lang) ==
    /\ last' = [op |-> "list_items", class_ |-> key[1], subject |-> key[2],
                category |-> key[3], lang |-> lang,
                ret |-> list_items(items, key[1], key[2], key[3], lang)]
    /\ StoreIdle
    /\ UsersIdle

Search(query, lang) ==
    /\ last' = [op |-> "search", query |-> query, lang |-> lang,
                ret |-> search(items, query, lang)]
    /\ StoreIdle
    /\ UsersIdle

SmartSearch(params) ==
    /\ last' = [op |-> "smart_search", params |-> params,
                ret |-> smart_search(items, params)]
    /\ StoreIdle
    /\ UsersIdle

NextQuery ==
    \/ \E id \in ItemIds : IncView(id)
    \/ \E id \in ItemIds : IncDownload(id)
    \/ \E r \in Records \cup {RecB3} : AddFromJson(<<r>>)
    \/ Tick
    \/ \E key \in ListKeys, lang \in LangFilters : ListItems(key, lang)
    \/ \E query \in Queries, lang \in LangFilters : Search(query, lang)
    \/ \E params \in ParamSets : SmartSearch(params)

SpecQuery == InitStore /\ [][NextQuery]_vars

(***************************************************************************)
(* Claims about the catalog queries (SpecQuery).                           *)
(***************************************************************************)
\* r lists exactly the items of its that satisfy Match, each once.
ExactlyThose(r, its, Match(_)) ==
    /\ \A j \in 1..Len(r) : \E k \in 1..Len(its) : its[k] = r[j] /\ Match(its[k])
    /\ \A k \in 1..Len(its) : Match(its[k]) => \E j \in 1..Len(r) : r[j] = its[k]
    /\ \A j1, j2 \in 1..Len(r) : r[j1].id = r[j2].id => j1 = j2

\* x may stand right before y: newest first, then more views, then more downloads.
NewestFirst(x, y) ==
    \/ x.added_at > y.added_at
    \/ /\ x.added_at = y.added_at
       /\ \/ x.views > y.views
          \/ x.views = y.views /\ x.downloads >= y.downloads

\* C9: list items returns exactly the items equal in every supplied field,
\* each once, by creation timestamp descending, ties by view count descending
\* and then download count descending.
C9_ListItemsOrdered ==
    last.op = "list_items" =>
        LET r == last.ret
            match(it) == /\ it.class_ = last.class_
                         /\ it.subject = last.subject
                         /\ it.category = last.category
                         /\ (last.lang # None => it.lang = last.lang)
        IN  /\ ExactlyThose(r, items, match)
            /\ \A j \in 1..(Len(r) - 1) : NewestFirst(r[j], r[j + 1])

\* A listing in which the later of two items comes first with fewer views,
\* followed by items of one timestamp in view-count order.
C9_Witness ==
    /\ last.op = "list_items"
    /\ Len(last.ret) >= 3
    /\ last.ret[1].added_at > last.ret[2].added_at
    /\ last.ret[1].views < last.ret[2].views
    /\ last.ret[2].added_at = last.ret[3].added_at
    /\ last.ret[2].views > last.ret[3].views

\* x may stand right before y: (class, subject, category) ascending, then more
\* views, then more downloads.
GroupedPopular(x, y) ==
    \/ StrLess(x.class_, y.class_)
    \/ /\ x.class_ = y.class_
       /\ \/ StrLess(x.subject, y.subject)
          \/ /\ x.subject = y.subject
             /\ \/ StrLess(x.category, y.category)
                \/ /\ x.category = y.category
                   /\ \/ x.views > y.views
                      \/ x.views = y.views /\ x.downloads >= y.downloads

\* a and b are the same text up to letter case.
SameFolded(a, b) == Lower(a) = Lower(b)

\* q occurs in s, letter case aside.
OccursFolded(q, s) == IsSubstr(Lower(q), Lower(s))

\* C10: a free-text or structured search returns exactly the items that
\* satisfy the query predicate, sorted by (class, subject, category) ascending,
\* then view count descending, then download count descending.
C10_SearchExactOrdered ==
    /\ last.op = "search" =>
         LET r == last.ret
             match(it) == /\ \/ OccursFolded(last.query, it.title)
                             \/ OccursFolded(last.query, it.subject)
                             \/ OccursFolded(last.query, it.category)
                          /\ (last.lang # None => it.lang = last.lang)
         IN  /\ ExactlyThose(r, items, match)
             /\ \A j \in 1..(Len(r) - 1) : GroupedPopular(r[j], r[j + 1])
    /\ last.op = "smart_search" =>
         LET r == last.ret
             p == last.params
             match(it) ==
                 /\ HasKey(p, "class") => it.class_ = p["class"]
                 /\ HasKey(p, "subject") => SameFolded(it.subject, p["subject"])
                 /\ HasKey(p, "category") => SameFolded(it.category, p["category"])
                 /\ HasKey(p, "lang") => SameFolded(it.lang, p["lang"])
                 /\ HasKey(p, "keyword") => OccursFolded(p["keyword"], it.title)
         IN  /\ ExactlyThose(r, items, match)
             /\ \A j \in 1..(Len(r) - 1) : GroupedPopular(r[j], r[j + 1])

\* A free-text search typed in capitals that matched some items by title only
\* and left others out, and returned class "10" before class "9" and the more
\* viewed of two items of one group first.
C10_Witness ==
    /\ last.op = "search"
    /\ last.query = SALG
    /\ Len(last.ret) >= 2
    /\ Len(last.ret) < Len(items)
    /\ \E j \in 1..(Len(last.ret) - 1) :
           last.ret[j].class_ = S10 /\ last.ret[j + 1].class_ = S9
    /\ \E j \in 1..Len(last.ret) : last.ret[j].downloads > 0

(***************************************************************************)
(* The chat handlers of the quiz and of the item buttons.                  *)
(***************************************************************************)
IsUpperCh(c) == c >= 65 /\ c <= 90
IsLowerCh(c) == c >= 97 /\ c <= 122
IsCased(c) == IsUpperCh(c) \/ IsLowerCh(c)

\* str.title(): a cased character is upper-cased when it follows an uncased
\* one (or starts the string) and lower-cased when it follows a cased one.
Title(s) ==
    [k \in 1..Len(s) |->
        IF k = 1 \/ ~IsCased(s[k - 1])
        THEN (IF IsLowerCh(s[k]) THEN s[k] - 32 ELSE s[k])
        ELSE (IF IsUpperCh(s[k]) THEN s[k] + 32 ELSE s[k])]

\* " ".join(args)
RECURSIVE Join(_)
Join(args) ==
    IF args = <<>> THEN <<>>
    ELSE IF Len(args) = 1 THEN args[1]
    ELSE args[1] \o SSpace \o Join(Tail(args))

\* L(user_id): users.get_lang(user_id)
L(ust, uid) == get_lang(ust, uid)

PointsOf(d, uid) == IF StrOfInt(uid) \in UKeys(d) THEN Profile(d, uid).points ELSE 0

\* Mutant: the closing award is the score, not twice the score.
send_next_quiz_awards_score(ust, uid) ==
    LET g == get_quiz(ust, uid)
        qstate == g.ret
        i == qstate.i
        qs == qstate.qs
        u == L(g.ust, uid).ust
    IN  IF i >= Len(qs)
        THEN [ust |-> add_points(u, uid, qstate.score), sent |-> "quiz_end", shown |-> {}]
        ELSE [ust |-> u, sent |-> "question", shown |-> {i}]

\* send_next_quiz: the closing message and the award when the index has
\* reached the number of questions, the question at the index otherwise.
send_next_quiz(ust, uid) ==
    LET g == get_quiz(ust, uid)
        qstate == g.ret
        i == qstate.i
        qs == qstate.qs
        u == L(g.ust, uid).ust
    IN  IF i >= Len(qs)
        THEN [ust |-> add_points(u, uid, qstate.score * 2), sent |-> "quiz_end", shown |-> {}]
        ELSE [ust |-> u, sent |-> "question", shown |-> {i}]

\* /quiz <subject>
quiz_cmd(ust, uid, args) ==
    LET u == L(ust, uid).ust
        subj == Title(Strip(Join(args)))
        bank == QuizBankGet(subj)
    IN  IF args = <<>> THEN [ust |-> u, sent |-> "usage", started |-> FALSE, shown |-> {}]
        ELSE IF bank = <<>> THEN [ust |-> u, sent |-> "no_quiz", started |-> FALSE, shown |-> {}]
        ELSE LET r == send_next_quiz(set_quiz(u, uid, NewQuiz(subj, bank)), uid)
             IN  [ust |-> r.ust, sent |-> r.sent, started |-> TRUE, shown |-> r.shown]

\* on_cb, data "QZSUB|<subj>"
on_cb_QZSUB(ust, uid, subj) ==
    LET u == L(ust, uid).ust
        bank == QuizBankGet(subj)
    IN  IF bank = <<>> THEN [ust |-> u, sent |-> "no_quiz", started |-> FALSE, shown |-> {}]
        ELSE LET r == send_next_quiz(set_quiz(u, uid, NewQuiz(subj, bank)), uid)
             IN  [ust |-> r.ust, sent |-> r.sent, started |-> TRUE, shown |-> r.shown]

\* on_cb, data "QZ|<i>|<opt>".  get_quiz hands out the session object of the
\* profile itself, so the new score is in the profile before add_points saves.
on_cb_QZ(ust, uid, i, opt) ==
    LET g == get_quiz(L(ust, uid).ust, uid)
        qstate == g.ret
        qs == qstate.qs
    IN  IF 0 <= i /\ i < Len(qs)
        THEN LET right == opt = qs[i + 1].ans
                 scored == IF right THEN [qstate EXCEPT !.score = @ + 1] ELSE qstate
                 u1 == IF right
                       THEN add_points([g.ust EXCEPT
                                !.data = SetField(g.ust.data, uid, "quiz", scored)], uid, 1)
                       ELSE g.ust
                 u2 == set_quiz(u1, uid, [scored EXCEPT !.i = i + 1])
             IN  send_next_quiz(u2, uid)
        ELSE [ust |-> g.ust, sent |-> "none", shown |-> {}]

\* on_cb, data "ITM|<id>": [st, ust, sent]
on_cb_ITM(st, ust, uid, item_id) ==
    LET u == L(ust, uid).ust
    IN  IF ~Has(st.items, item_id)
        THEN [st |-> st, ust |-> u, sent |-> "no_items"]
        ELSE [st |-> inc_view(st, item_id), ust |-> add_points(u, uid, 1), sent |-> "item"]

\* on_cb, data "DL|<id>"
on_cb_DL(st, ust, uid, item_id) ==
    LET u == L(ust, uid).ust
        st1 == inc_download(st, item_id)
    IN  [st |-> st1, ust |-> add_points(u, uid, 2),
         sent |-> IF Has(st1.items, item_id) THEN "item" ELSE "none"]

(***************************************************************************)
(* The handlers as steps.                                                  *)
(***************************************************************************)
Sxyz == <<120, 121, 122>>
QuizArgs == {<<>>, <<Smaths>>, <<Sxyz>>}
QuizButtons == {SPhysics}
Indices == {0, 1}
Options == {0, 1}

\* A session of two questions that has just been started.
SavedSession ==
    [subject |-> SMaths, i |-> 0, score |-> 0,
     qs |-> QuizBankGet(SMaths) \o QuizBankGet(SPhysics)]

\* What users.json holds when the process starts: Users._load takes the
\* document as it is.
SessionDocs ==
    {[kind |-> "absent"],
     [kind |-> "doc",
      data |-> <<[key |-> StrOfInt(1),
                  val |-> [DefaultProfile EXCEPT !.quiz = SavedSession]]>>]}

Init ==
    /\ now = 0
    /\ LET st == store_init(Doc(<<from_dict(RecA1, 0)>>), now)
       IN  items = st.items /\ file = st.file
    /\ \E doc \in SessionDocs :
          LET u == users_init(doc)
          IN  /\ data = u.data /\ ufile = u.file
              /\ hist = [uid \in Uids |->
                            IF StrOfInt(uid) \in UKeys(u.data)
                            THEN [NoSession EXCEPT !.started = TRUE, !.shown = {0}]
                            ELSE NoSession]
    /\ admins = ADMINS(0)
    /\ digest = NoRun
    /\ last = [op |-> "init"]

QuizCmd(uid, args) ==
    /\ LET r == quiz_cmd(UsersNow, uid, args)
       IN  /\ data' = r.ust.data /\ ufile' = r.ust.file
           /\ hist' = IF r.started
                      THEN [hist EXCEPT ![uid] =
                               [NoSession EXCEPT !.started = TRUE,
                                                 !.shown = hist[uid].shown \cup r.shown]]
                      ELSE hist
           /\ last' = [op |-> "quiz_cmd", uid |-> uid, args |-> args, sent |-> r.sent,
                       started |-> r.started]
    /\ UNCHANGED <<items, file, now, admins, digest>>

CbQzSub(uid, subj) ==
    /\ LET r == on_cb_QZSUB(UsersNow, uid, subj)
       IN  /\ data' = r.ust.data /\ ufile' = r.ust.file
           /\ hist' = IF r.started
                      THEN [hist EXCEPT ![uid] =
                               [NoSession EXCEPT !.started = TRUE,
                                                 !.shown = hist[uid].shown \cup r.shown]]
                      ELSE hist
           /\ last' = [op |-> "QZSUB", uid |-> uid, subj |-> subj, sent |-> r.sent,
                       started |-> r.started]
    /\ UNCHANGED <<items, file, now, admins, digest>>

CbQz(uid, i, opt) ==
    /\ Len(hist[uid].presses) < MaxPresses
    /\ i \in hist[uid].shown
    /\ LET r == on_cb_QZ(UsersNow, uid, i, opt)
       IN  /\ PointsOf(r.ust.data, uid) <= MaxPoints
           /\ data' = r.ust.data /\ ufile' = r.ust.file
           /\ hist' = [hist EXCEPT
                          ![uid].presses = Append(@, [i |-> i, opt |-> opt]),
                          ![uid].awarded = @ + PointsOf(r.ust.data, uid)
                                             - PointsOf(data, uid),
                          ![uid].shown = @ \cup r.shown]
           /\ last' = [op |-> "QZ", uid |-> uid, i |-> i, opt |-> opt, sent |-> r.sent,
                       started |-> FALSE]
    /\ UNCHANGED <<items, file, now, admins, digest>>

CbItm(uid, id) ==
    /\ Has(items, id) => Lookup(items, id).views < MaxCount
    /\ LET r == on_cb_ITM(StoreNow, UsersNow, uid, id)
       IN  /\ PointsOf(r.ust.data, uid) <= MaxPoints
           /\ items' = r.st.items /\ file' = r.st.file
           /\ data' = r.ust.data /\ ufile' = r.ust.file
           /\ last' = [op |-> "ITM", uid |-> uid, id |-> id, sent |-> r.sent,
                       started |-> FALSE]
    /\ UNCHANGED <<now, hist, admins, digest>>

CbDl(uid, id) ==
    /\ Has(items, id) => Lookup(items, id).downloads < MaxCount
    /\ LET r == on_cb_DL(StoreNow, UsersNow, uid, id)
       IN  /\ PointsOf(r.ust.data, uid) <= MaxPoints
           /\ items' = r.st.items /\ file' = r.st.file
           /\ data' = r.ust.data /\ ufile' = r.ust.file
           /\ last' = [op |-> "DL", uid |-> uid, id |-> id, sent |-> r.sent,
                       started |-> FALSE]
    /\ UNCHANGED <<now, hist, admins, digest>>

Next ==
    \/ \E args \in QuizArgs : QuizCmd(1, args)
    \/ QuizCmd(12, <<SPhysics>>)
    \/ \E subj \in QuizButtons : CbQzSub(1, subj)
    \/ \E i \in Indices, opt \in Options : CbQz(1, i, opt)
    \/ \E id \in ItemIds : CbItm(1, id)
    \/ \E id \in ItemIds : CbDl(1, id)

Spec == Init /\ [][Next]_vars

(***************************************************************************)
(* The commands and the daily job.  A handler gives [st, ust, sent]: both   *)
(* stores after it and the messages it sent, in order.                     *)
(***************************************************************************)
\* uid not in ADMINS or uid == 0
NotAdmin(adm, uid) == uid \notin adm \/ uid = 0

Reply(uid, kind) == [to |-> uid, kind |-> kind]

\* /addjson.  payload is what the text after the command is: nothing, text
\* json.loads rejects, one JSON object, or a JSON array of objects.
addjson_cmd(st, ust, adm, uid, payload, t) ==
    LET u == L(ust, uid).ust
    IN  IF NotAdmin(adm, uid)
        THEN [st |-> st, ust |-> u, sent |-> <<Reply(uid, "not_admin")>>]
        ELSE IF payload.kind = "none"
        THEN [st |-> st, ust |-> u, sent |-> <<Reply(uid, "usage")>>]
        ELSE IF payload.kind = "text"
        THEN [st |-> st, ust |-> u, sent |-> <<Reply(uid, "failed")>>]
        ELSE LET batch == IF payload.kind = "dict" THEN <<payload.rec>> ELSE payload.recs
                 r == add_from_json(st, batch, t)
             IN  [st |-> [items |-> r.items, file |-> r.file],
                  ust |-> u,
                  sent |-> <<[to |-> uid,
                              kind |-> IF r.raised THEN "failed" ELSE "added",
                              n |-> r.count]>>]

\* /remove <item_id>
remove_cmd(st, ust, adm, uid, args) ==
    LET u == L(ust, uid).ust
    IN  IF NotAdmin(adm, uid)
        THEN [st |-> st, ust |-> u, sent |-> <<Reply(uid, "not_admin")>>]
        ELSE IF args = <<>>
        THEN [st |-> st, ust |-> u, sent |-> <<Reply(uid, "usage")>>]
        ELSE IF Has(st.items, args[1])
        THEN [st |-> store_delete(st, args[1]), ust |-> u,
              sent |-> <<Reply(uid, "removed")>>]
        ELSE [st |-> st, ust |-> u, sent |-> <<Reply(uid, "not_found")>>]

Document(uid, name, content) ==
    [to |-> uid, kind |-> "document", name |-> name, content |-> content]

\* /backup: both branches of the admin test send both files.
backup_cmd(st, ust, adm, uid) ==
    IF NotAdmin(adm, uid)
    THEN [st |-> st, ust |-> ust,
          sent |-> <<Document(uid, "materials.json", st.file),
                     Document(uid, "users.json", ust.file)>>]
    ELSE [st |-> st, ust |-> ust,
          sent |-> <<Document(uid, "materials.json", st.file),
                     Document(uid, "users.json", ust.file)>>]

\* /broadcast <message>: the message goes to the daily subscribers.
broadcast_cmd(st, ust, adm, uid, args) ==
    LET u == L(ust, uid).ust
        subs == daily_users(u)
    IN  IF NotAdmin(adm, uid)
        THEN [st |-> st, ust |-> u, sent |-> <<Reply(uid, "not_admin")>>]
        ELSE IF args = <<>>
        THEN [st |-> st, ust |-> u, sent |-> <<Reply(uid, "usage")>>]
        ELSE [st |-> st, ust |-> u,
              sent |-> [k \in 1..Len(subs) |->
                           [to |-> subs[k], kind |-> "broadcast", text |-> Join(args)]]
                       \o <<[to |-> uid, kind |-> "broadcast_sent", n |-> Len(subs)]>>]

\* /bookmark <item_id>
bookmark_cmd(st, ust, uid, args) ==
    LET u == L(ust, uid).ust
    IN  IF args = <<>>
        THEN [st |-> st, ust |-> u, sent |-> <<Reply(uid, "usage")>>]
        ELSE IF Has(st.items, args[1])
        THEN [st |-> st, ust |-> add_points(bookmark(u, uid, args[1]), uid, 1),
              sent |-> <<Reply(uid, "bm_added")>>]
        ELSE [st |-> st, ust |-> u, sent |-> <<Reply(uid, "not_found")>>]

\* /daily_on
daily_on_cmd(st, ust, uid) ==
    [st |-> st, ust |-> L(subscribe_daily(ust, uid, TRUE), uid).ust,
     sent |-> <<Reply(uid, "daily_on")>>]

\* /daily_off
daily_off_cmd(st, ust, uid) ==
    [st |-> st, ust |-> L(subscribe_daily(ust, uid, FALSE), uid).ust,
     sent |-> <<Reply(uid, "daily_off")>>]

\* The names bound at module level once main() runs.  build_app and main keep
\* the application in a local `app`; main declares only `scheduler` global.
GlobalNames == {"store", "users", "scheduler", "ADMINS", "TEXT", "QUIZ_BANK"}

\* Mutant: the job adds a view to the item it picks.
send_daily_body_counts_view(st, ust, uid) ==
    LET top == top_latest(st.items, 1)
    IN  [st |-> IF top # <<>> THEN inc_view(st, top[1].id) ELSE st,
         ust |-> ust, sent |-> <<>>, errors |-> <<uid>>]

\* The body of send_daily's loop for one subscriber: the latest item is
\* picked and the message is sent through `app.bot`; looking up `app` raises
\* NameError when the name is not bound, and the except clause of the body
\* prints it and the loop goes on.
send_daily_body(st, ust, uid) ==
    LET top == top_latest(st.items, 1)
        its == IF top # <<>> THEN top ELSE st.items
    IN  IF its = <<>>
        THEN [st |-> st, ust |-> ust, sent |-> <<>>, errors |-> <<>>]
        ELSE IF "app" \notin GlobalNames
        THEN [st |-> st, ust |-> ust, sent |-> <<>>, errors |-> <<uid>>]
        ELSE [st |-> st, ust |-> ust, errors |-> <<>>,
              sent |-> <<[to |-> uid, kind |-> "daily", title |-> its[1].title]>>]

\* send_daily: the body, once per subscriber, in the order of daily_users().
send_daily(st, ust) ==
    LET subs == daily_users(ust)
        f[n \in 0..Len(subs)] ==
            IF n = 0 THEN [st |-> st, ust |-> ust, sent |-> <<>>, errors |-> <<>>]
            ELSE LET b == send_daily_body(f[n - 1].st, f[n - 1].ust, subs[n])
                 IN  [st |-> b.st, ust |-> b.ust,
                      sent |-> f[n - 1].sent \o b.sent,
                      errors |-> f[n - 1].errors \o b.errors]
    IN  f[Len(subs)]

(***************************************************************************)
(* The commands and the daily job as steps (SpecCmd).  User 12 is the      *)
(* administrator when one is configured.                                   *)
(***************************************************************************)
Payloads ==
    {[kind |-> "none"], [kind |-> "text"],
     [kind |-> "dict", rec |-> RecA2],
     [kind |-> "list", recs |-> <<RecA1, RecBad>>]}

RemoveArgs == {<<>>, <<SA>>, <<SB>>}
SHello == <<104, 105>>
BroadcastArgs == {<<>>, <<SHello>>}

InitCmd ==
    /\ now = 0
    /\ LET st == store_init(Doc(<<from_dict(RecA1, 0)>>), now)
       IN  items = st.items /\ file = st.file
    /\ data = NoUsers
    /\ ufile = NoUsers
    /\ hist = NoHist
    /\ \E admin_id \in {0, 12} : admins = ADMINS(admin_id)
    /\ digest = NoRun
    /\ last = [op |-> "init"]

\* The step a handler result r makes.
Handled(r, l) ==
    /\ items' = r.st.items /\ file' = r.st.file
    /\ data' = r.ust.data /\ ufile' = r.ust.file
    /\ last' = l
    /\ UNCHANGED <<now, hist, admins, digest>>

AddJsonCmd(uid, payload) ==
    LET r == addjson_cmd(StoreNow, UsersNow, admins, uid, payload, now)
    IN  Handled(r, [op |-> "addjson_cmd", uid |-> uid, payload |-> payload,
                    sent |-> r.sent])

RemoveCmd(uid, args) ==
    LET r == remove_cmd(StoreNow, UsersNow, admins, uid, args)
    IN  Handled(r, [op |-> "remove_cmd", uid |-> uid, args |-> args, sent |-> r.sent])

BackupCmd(uid) ==
    LET r == backup_cmd(StoreNow, UsersNow, admins, uid)
    IN  Handled(r, [op |-> "backup_cmd", uid |-> uid, sent |-> r.sent])

BroadcastCmd(uid, args) ==
    LET r == broadcast_cmd(StoreNow, UsersNow, admins, uid, args)
    IN  Handled(r, [op |-> "broadcast_cmd", uid |-> uid, args |-> args,
                    sent |-> r.sent])

BookmarkCmd(uid, args) ==
    LET r == bookmark_cmd(StoreNow, UsersNow, uid, args)
    IN  /\ PointsOf(r.ust.data, uid) <= MaxPoints
        /\ Handled(r, [op |-> "bookmark_cmd", uid |-> uid, args |-> args,
                       sent |-> r.sent])

DailyOnCmd(uid) ==
    LET r == daily_on_cmd(StoreNow, UsersNow, uid)
    IN  Handled(r, [op |-> "daily_on_cmd", uid |-> uid, sent |-> r.sent])

DailyOffCmd(uid) ==
    LET r == daily_off_cmd(StoreNow, UsersNow, uid)
    IN  Handled(r, [op |-> "daily_off_cmd", uid |-> uid, sent |-> r.sent])

\* One run of the job.  No send is reached, so the run never suspends.
SendDaily ==
    LET r == send_daily(StoreNow, UsersNow)
    IN  Handled(r, [op |-> "send_daily", subs |-> daily_users(UsersNow),
                    sent |-> r.sent, errors |-> r.errors])

NextCmd ==
    \/ \E uid \in Uids, payload \in Payloads : AddJsonCmd(uid, payload)
    \/ \E uid \in Uids, args \in RemoveArgs : RemoveCmd(uid, args)
    \/ \E uid \in Uids : BackupCmd(uid)
    \/ \E uid \in Uids, args \in BroadcastArgs : BroadcastCmd(uid, args)
    \/ \E args \in RemoveArgs : PointsOf(data, 1) < MaxCmdPoints /\ BookmarkCmd(1, args)
    \/ \E uid \in Uids : DailyOnCmd(uid)
    \/ DailyOffCmd(1)
    \/ \E id \in ItemIds : PointsOf(data, 1) < MaxCmdPoints /\ CbItm(1, id)
    \/ \E id \in ItemIds : PointsOf(data, 1) < MaxCmdPoints /\ CbDl(1, id)
    \/ SendDaily

SpecCmd == InitCmd /\ [][NextCmd]_vars

(***************************************************************************)
(* The daily job taken one subscriber at a time (SpecDigest).  Each turn   *)
(* of the loop of send_daily is a step of its own, so handlers may run     *)
(* between any two turns: this admits every schedule of the event loop,    *)
(* the one where the turns follow each other without a handler between     *)
(* them included.  `digest` holds the subscribers still to serve, the      *)
(* number served, and the stores as the run last left them.                *)
(***************************************************************************)
SendDailyStart ==
    /\ digest.pc = "idle"
    /\ LET subs == daily_users(UsersNow)
       IN  /\ digest' = IF subs = <<>> THEN NoRun
                        ELSE [pc |-> "running", subs |-> subs, n |-> 0,
                              was |-> <<items, data>>]
           /\ last' = [op |-> "send_daily", subs |-> subs]
    /\ UNCHANGED <<items, file, data, ufile, now, hist, admins>>

SendDailyNext ==
    /\ digest.pc = "running"
    /\ LET uid == Head(digest.subs)
           r == send_daily_body(StoreNow, UsersNow, uid)
       IN  /\ items' = r.st.items /\ file' = r.st.file
           /\ data' = r.ust.data /\ ufile' = r.ust.file
           /\ digest' = IF Tail(digest.subs) = <<>> THEN NoRun
                        ELSE [digest EXCEPT !.subs = Tail(@), !.n = @ + 1,
                                            !.was = <<r.st.items, r.ust.data>>]
           /\ last' = [op |-> "send_daily_body", uid |-> uid, n |-> digest.n + 1,
                       between |-> digest.was # <<items, data>>,
                       sent |-> r.sent, errors |-> r.errors]
    /\ UNCHANGED <<now, hist, admins>>

NextDigest ==
    \/ SendDailyStart
    \/ SendDailyNext
    \/ \E uid \in Uids : DailyOnCmd(uid)
    \/ \E uid \in Uids : DailyOffCmd(uid)
    \/ \E payload \in Payloads : AddJsonCmd(12, payload)
    \/ \E args \in RemoveArgs : RemoveCmd(12, args)
    \/ \E id \in ItemIds : PointsOf(data, 1) < MaxCmdPoints /\ CbItm(1, id)
    \/ \E id \in ItemIds : PointsOf(data, 1) < MaxCmdPoints /\ CbDl(1, id)

SpecDigest == InitCmd /\ [][NextDigest]_vars

\* The step is a step of a run of the daily job.
DigestStep == last'.op \in {"send_daily", "send_daily_body"} /\ now' = now

\* C16: the daily job only reads the two stores: whatever handlers run
\* between the turns of a run (subscribe, unsubscribe, ingest, delete,
\* increments), no step of the run changes the catalog, a profile or either
\* document, so both stores end as the handlers alone left them.
C16_DigestOnlyReads ==
    [][DigestStep =>
          /\ items' = items /\ file' = file
          /\ data' = data /\ ufile' = ufile]_vars

\* The second subscriber of a run is served after a handler changed a store
\* while the run was suspended.
C16_Witness ==
    /\ last.op = "send_daily_body"
    /\ last.n = 2
    /\ last.between
    /\ Len(items) > 0

(***************************************************************************)
(* Claims about the commands and the daily job (SpecCmd).                  *)
(***************************************************************************)
\* The step names an item identifier that is not in the catalog.
NamesAbsentItem ==
    /\ now' = now
    /\ \/ last'.op \in {"ITM", "DL"} /\ ~Has(items, last'.id)
       \/ /\ last'.op = "bookmark_cmd"
          /\ last'.args # <<>> /\ ~Has(items, last'.args[1])
       \/ /\ last'.op = "remove_cmd" /\ ~NotAdmin(admins, last'.uid)
          /\ last'.args # <<>> /\ ~Has(items, last'.args[1])

\* What the step told the caller is a "not found".
ReportsNotFound ==
    IF last'.op \in {"ITM", "DL"} THEN last'.sent = "no_items"
    ELSE last'.sent = <<Reply(last'.uid, "not_found")>>

\* C12: every interaction that names an item identifier not in the catalog
\* (opening an item, marking a download, /bookmark, /remove) ends with a
\* "not found" reported to the caller.
C12_AbsentReported ==
    [][NamesAbsentItem => ReportsNotFound]_vars

\* The users whose daily flag is set.
Subscribers(d) == {uid \in Uids : StrOfInt(uid) \in UKeys(d) /\ Profile(d, uid).daily}

MostRecent(its) == {x \in Elems(its) : \A y \in Elems(its) : x.added_at >= y.added_at}

\* C13: a run of the daily job sends exactly one notification, built from the
\* most recently added item, to every user whose daily flag is set when the
\* job runs, and none to anyone else.
C13_DigestToSubscribers ==
    [][(last'.op = "send_daily" /\ now' = now /\ items # <<>>) =>
          /\ {last'.sent[k].to : k \in 1..Len(last'.sent)} = Subscribers(data)
          /\ Len(last'.sent) = Cardinality(Subscribers(data))
          /\ \A k \in 1..Len(last'.sent) :
                 \E x \in MostRecent(items) : last'.sent[k].title = x.title]_vars

AdminCommands == {"addjson_cmd", "remove_cmd", "broadcast_cmd", "backup_cmd"}

\* C15: /addjson, /remove, /broadcast and /backup are admin-only: invoked by
\* a user who is not the configured administrator, or with no administrator
\* configured, they leave the catalog unchanged, send no broadcast message
\* and deliver no backup document.
C15_AdminOnly ==
    [][(last'.op \in AdminCommands /\ now' = now /\ NotAdmin(admins, last'.uid)) =>
          /\ items' = items
          /\ file' = file
          /\ \A k \in 1..Len(last'.sent) :
                 last'.sent[k].kind \notin {"broadcast", "document"}]_vars

\* The step is an /addjson of the administrator that reported a failure.
IngestFails ==
    /\ last'.op = "addjson_cmd" /\ now' = now
    /\ ~NotAdmin(admins, last'.uid)
    /\ last'.sent[1].kind = "failed"

\* C18: a bulk ingest that fails applies nothing: after the failure is
\* reported, the catalog in memory is the catalog before the ingest and is
\* the persisted document, even when valid records came before the bad one.
C18_FailedIngestAppliesNothing ==
    [][IngestFails => (items' = items /\ file' = items')]_vars

\* C19: points for viewing or downloading are given only for items that
\* exist: an ITM or DL button press whose identifier is not in the catalog
\* leaves the points of the user who pressed, and the catalog, unchanged.
C19_NoPointsForAbsent ==
    [][(last'.op \in {"ITM", "DL"} /\ now' = now /\ ~Has(items, last'.id)) =>
          /\ PointsOf(data', last'.uid) = PointsOf(data, last'.uid)
          /\ items' = items
          /\ file' = file]_vars

(***************************************************************************)
(* Claims about the quiz (Spec).                                           *)
(***************************************************************************)
HasProfile(uid) == StrOfInt(uid) \in UKeys(data)

QuizOf(d, uid) == Profile(d, uid).quiz

\* Every question of the session was answered once, in order, since its start.
AnsweredOnceInOrder(uid) ==
    /\ hist[uid].started
    /\ HasProfile(uid)
    /\ Len(hist[uid].presses) = Len(QuizOf(data, uid).qs)
    /\ \A k \in 1..Len(hist[uid].presses) : hist[uid].presses[k].i = k - 1

CorrectCount(uid) ==
    Cardinality({k \in 1..Len(hist[uid].presses) :
                    hist[uid].presses[k].opt = QuizOf(data, uid).qs[k].ans})

\* C1 as stated: after every question was answered once, in order, the quiz
\* has added twice the number of correct answers to the user's points.
C1_TwicePerCorrect ==
    \A uid \in Uids :
        AnsweredOnceInOrder(uid) => hist[uid].awarded = 2 * CorrectCount(uid)

\* C1 amended: after every question was answered once, in order, the quiz has
\* added three times the number of correct answers (one point at each correct
\* answer, twice the score at the end); the score is that number and the
\* index is the number of questions.
C1_ThricePerCorrect ==
    \A uid \in Uids :
        AnsweredOnceInOrder(uid) =>
            /\ hist[uid].awarded = 3 * CorrectCount(uid)
            /\ QuizOf(data, uid).score = CorrectCount(uid)
            /\ QuizOf(data, uid).i = Len(QuizOf(data, uid).qs)

\* Two questions answered in order, one of them correctly: three points.
C1_Witness ==
    /\ AnsweredOnceInOrder(1)
    /\ Len(QuizOf(data, 1).qs) = 2
    /\ CorrectCount(1) = 1
    /\ hist[1].awarded = 3
    /\ last.op = "QZ" /\ last.sent = "quiz_end"

\* The step starts a quiz of the user.
StartsQuiz(uid) ==
    /\ last'.op \in {"quiz_cmd", "QZSUB"}
    /\ last'.uid = uid
    /\ last'.started

Finished(uid) ==
    /\ hist[uid].started
    /\ HasProfile(uid)
    /\ QuizOf(data, uid).i = Len(QuizOf(data, uid).qs)

\* C3: once a session is finished, nothing the user does short of starting a
\* new quiz changes its index or score, and the quiz awards no more points.
C3_FinishedFrozen ==
    [][\A uid \in Uids :
          (Finished(uid) /\ ~StartsQuiz(uid)) =>
              /\ QuizOf(data', uid).i = QuizOf(data, uid).i
              /\ QuizOf(data', uid).score = QuizOf(data, uid).score
              /\ hist'[uid].awarded = hist[uid].awarded]_vars

\* C17: the score of a quiz session never exceeds the number of its
\* questions nor its index: a question adds to the score at most once,
\* however often its answer buttons are pressed.
C17_ScoreBounded ==
    \A uid \in Uids :
        (hist[uid].started /\ HasProfile(uid)) =>
            /\ QuizOf(data, uid).score <= Len(QuizOf(data, uid).qs)
            /\ QuizOf(data, uid).score <= QuizOf(data, uid).i

====
